---- MODULE Spec2Model ----
(***************************************************************************)
(* A model of 10ff, a terminal typing game.                                *)
(*                                                                         *)
(*   SpecLines   tenff/util.py divide_lines, one action per loop step      *)
(*   Spec        tenff/game.py run_game: the main loop, the tick task,     *)
(*               the input callback and the game state they share         *)
(*   SpecLegacy  10ff/game.py Game.run, the older variant of the same game *)
(*   SpecBackspace, SpecExact  run_game with the user typing a fixed script *)
(*   SpecFair, SpecLive  Spec with the fairness of the asyncio loop         *)
(*   SpecView    GameState's lines and the window of lines shown           *)
(*                                                                         *)
(* Text is a sequence of one-character strings.  Control characters are    *)
(* written by their ASCII names: "ETX" is 0x03, "ETB" is 0x17 (Ctrl-W),    *)
(* "DEL" is 0x7F, "SOH" is 0x01, "TAB" is 0x09.                            *)
(***************************************************************************)
EXTENDS Integers, Sequences, FiniteSets, TLC

VARIABLES
    \* ---- divide_lines (tenff/util.py) ----
    dl_words,          \* the argument words
    dl_max_columns,    \* the argument max_columns
    dl_words_left,     \* local words_left
    dl_current_line,   \* local current_line
    dl_low,            \* local low
    dl_lines,          \* local lines (the result once dl_pc = "return")
    dl_pc,             \* position in divide_lines
    \* ---- GameSettings / GameState (tenff/game.py) ----
    words,                      \* the texts of state.words
    status,                     \* the statuses of state.words
    current_word_index,
    word_input,
    time_left,
    start_time,
    end_time,
    keys_pressed,
    current_word_keys_pressed,
    timer_future,               \* "None", or the state of the tick task
    must_cancel,                \* the tick task's pending cancellation request
    rigorous_spaces,            \* settings.rigorous_spaces
    max_time,                   \* settings.max_time
    \* ---- the event loop around the game ----
    main_pc,           \* position of run_game / Game.run
    input_queue,       \* TerminalInputHandler.input_queue
    pending_puts,      \* input_queue.put(...) tasks scheduled, not yet run
    now,               \* the latest reading of time.time(), None before the first
    \* ---- history, written but never read by the program ----
    calls,             \* the methods the latest consume_key invoked, in order
    aborted,           \* an abort key has been routed to finish()
    keys_typed,        \* number of key events the input callback has produced
    script_pos,        \* number of keys of the script the scripted user has typed
    \* ---- the world around the program ----
    hung_up,           \* the terminal has hung up: termios calls fail (SpecLegacy)
    loop_stopped       \* run_until_complete has stopped the event loop

dl_vars == <<dl_words, dl_max_columns, dl_words_left, dl_current_line, dl_low,
             dl_lines, dl_pc>>

game_vars == <<words, status, current_word_index, word_input, time_left,
               start_time, end_time, keys_pressed, current_word_keys_pressed,
               timer_future, must_cancel, rigorous_spaces, max_time>>

term_vars == <<hung_up, loop_stopped>>

loop_vars == <<main_pc, input_queue, pending_puts, now, calls, aborted,
               keys_typed, script_pos, term_vars>>

vars == <<dl_vars, game_vars, loop_vars>>

\* An unset timestamp (start_time, end_time); the clock reads 0 or more.
None == -1

\* timer_future before the tick task exists
NoTask == "None"

Min(a, b) == IF a <= b THEN a ELSE b

(***************************************************************************)
(* Bounds of the model.                                                    *)
(***************************************************************************)
MaxDlWords == 3      \* divide_lines: words per argument list
MaxWordLen == 2      \* divide_lines: characters per word
MaxCols == 4         \* divide_lines: largest max_columns tried
NumWords == 2        \* words per game (SAMPLE_SIZE in the program)
MaxTime == 2         \* largest time budget tried
MaxOverrun == 2      \* how far below zero the countdown is followed
MaxKeys == 3         \* key events the user produces in one game
MaxClock == 6        \* largest reading of the clock
MaxRead == 2         \* most keys of a script read as one event

(***************************************************************************)
(* Text helpers: str.strip, " ".join, str.startswith.                      *)
(***************************************************************************)
IsSpace(c) == c \in {" ", "TAB"}

RECURSIVE LStrip(_)
LStrip(s) == IF s # <<>> /\ IsSpace(Head(s)) THEN LStrip(Tail(s)) ELSE s

RECURSIVE RStrip(_)
RStrip(s) ==
    IF s # <<>> /\ IsSpace(s[Len(s)]) THEN RStrip(SubSeq(s, 1, Len(s) - 1))
    ELSE s

Strip(s) == RStrip(LStrip(s))

JoinSpace(a, b) == a \o <<" ">> \o b

StartsWith(text, prefix) ==
    /\ Len(prefix) <= Len(text)
    /\ SubSeq(text, 1, Len(prefix)) = prefix

(***************************************************************************)
(* divide_lines(words, max_columns), tenff/util.py 34-54 (10ff/util.py is  *)
(* the same loop).                                                         *)
(***************************************************************************)
DlChars == {"a", " "}

RECURSIVE SeqsUpTo(_, _)
SeqsUpTo(S, n) ==
    IF n = 0 THEN {<<>>}
    ELSE LET shorter == SeqsUpTo(S, n - 1)
         IN shorter \cup {Append(s, x) : s \in {t \in shorter : Len(t) = n - 1}, x \in S}

DlWordSet == SeqsUpTo(DlChars, MaxWordLen)

DlMaxLines == MaxDlWords + 2

\* new_line = " ".join((current_line, word)).strip()
NewLine(current_line, word) == Strip(JoinSpace(current_line, word))

\* a test that lets a line grow to max_columns characters
LineFull_OneMore(current_line, word, max_columns) ==
    Len(NewLine(current_line, word)) > max_columns

\* line 48: the word does not fit on the current line
LineFull(current_line, word, max_columns) ==
    Len(NewLine(current_line, word)) >= max_columns

DlIdleGame ==
    /\ words = <<>> /\ status = <<>> /\ current_word_index = 0
    /\ word_input = <<>> /\ time_left = 0 /\ start_time = None
    /\ end_time = None /\ keys_pressed = 0 /\ current_word_keys_pressed = 0
    /\ timer_future = NoTask /\ must_cancel = FALSE /\ rigorous_spaces = FALSE
    /\ max_time = 0
    /\ main_pc = "idle" /\ input_queue = <<>> /\ pending_puts = <<>>
    /\ now = None /\ calls = <<>> /\ aborted = FALSE /\ keys_typed = 0 /\ script_pos = 0
    /\ hung_up = FALSE /\ loop_stopped = FALSE

\* lines 40-41: the call, with its arguments
DlInit ==
    /\ dl_words \in SeqsUpTo(DlWordSet, MaxDlWords)
    /\ dl_max_columns \in 1..MaxCols
    /\ dl_words_left = dl_words
    /\ dl_lines = <<>>
    /\ dl_current_line = <<>>
    /\ dl_low = 0
    /\ dl_pc = "outer"
    /\ DlIdleGame

\* lines 42-44: the outer loop test and the start of a line
DlOuter ==
    /\ dl_pc = "outer"
    /\ IF Len(dl_words_left) > 0
       THEN /\ dl_current_line' = <<>>
            /\ dl_low' = Len(dl_words) - Len(dl_words_left)
            /\ dl_pc' = "inner"
       ELSE /\ dl_pc' = "return"
            /\ UNCHANGED <<dl_current_line, dl_low>>
    /\ UNCHANGED <<dl_words, dl_max_columns, dl_words_left, dl_lines>>
    /\ UNCHANGED <<game_vars, loop_vars>>

\* lines 45-51: one pass of the inner loop
DlInner ==
    /\ dl_pc = "inner"
    /\ IF Len(dl_words_left) = 0
       THEN /\ dl_pc' = "append"
            /\ UNCHANGED <<dl_words_left, dl_current_line>>
       ELSE IF LineFull(dl_current_line, Head(dl_words_left), dl_max_columns)
            THEN /\ dl_pc' = "append"
                 /\ UNCHANGED <<dl_words_left, dl_current_line>>
            ELSE /\ dl_words_left' = Tail(dl_words_left)
                 /\ dl_current_line' = NewLine(dl_current_line, Head(dl_words_left))
                 /\ dl_pc' = "inner"
    /\ UNCHANGED <<dl_words, dl_max_columns, dl_low, dl_lines>>
    /\ UNCHANGED <<game_vars, loop_vars>>

\* lines 52-53: the line is appended (followed for at most DlMaxLines lines)
DlAppend ==
    /\ dl_pc = "append"
    /\ Len(dl_lines) < DlMaxLines
    /\ dl_lines' = Append(dl_lines, <<dl_low, Len(dl_words) - Len(dl_words_left)>>)
    /\ dl_pc' = "outer"
    /\ UNCHANGED <<dl_words, dl_max_columns, dl_words_left, dl_current_line, dl_low>>
    /\ UNCHANGED <<game_vars, loop_vars>>

DlNext == DlOuter \/ DlInner \/ DlAppend

SpecLines == DlInit /\ [][DlNext]_vars

(***************************************************************************)
(* Claims about divide_lines, checked under SpecLines.                     *)
(***************************************************************************)
DlHigh == Len(dl_words) - Len(dl_words_left)

\* A word that fills a line by itself: its stripped text is max_columns long or longer.
DlOversized(word) == Len(Strip(word)) >= dl_max_columns

\* C1: divide_lines terminates for every word list and every max_columns >= 1:
\* every pass of the outer loop consumes at least one word (so there are never
\* more lines than words), and a word as long as max_columns or longer is
\* consumed alone on its line.
C1_DivideLinesTerminates ==
    /\ Len(dl_lines) <= Len(dl_words)
    /\ dl_pc = "append" =>
          /\ DlHigh > dl_low
          /\ DlOversized(dl_words[dl_low + 1]) => DlHigh = dl_low + 1

\* C2: the ranges divide_lines builds partition [0, n): the first starts at 0,
\* each starts where the one before ends, none is empty, and at the return the
\* last one ends at n.
C2_RangesPartition ==
    /\ \A i \in 1..Len(dl_lines) :
          /\ dl_lines[i][1] < dl_lines[i][2]
          /\ dl_lines[i][1] = (IF i = 1 THEN 0 ELSE dl_lines[i - 1][2])
    /\ (dl_pc = "return" /\ dl_words # <<>>) =>
          /\ dl_lines # <<>>
          /\ dl_lines[Len(dl_lines)][2] = Len(dl_words)

\* The case C1 and C2 leave out: when every word is shorter than max_columns
\* the loop does consume a word per line and the ranges partition [0, n).
DlAllFit == \A i \in 1..Len(dl_words) : ~DlOversized(dl_words[i])

DlPartitionWhenAllFit == DlAllFit => (C1_DivideLinesTerminates /\ C2_RangesPartition)

\* words as parse_corpus yields them: not empty, no whitespace in them
DlCorpusLike ==
    \A i \in 1..Len(dl_words) :
        /\ dl_words[i] # <<>>
        /\ \A j \in 1..Len(dl_words[i]) : ~IsSpace(dl_words[i][j])

\* the length of the words low .. high - 1 joined by single spaces
RECURSIVE JoinedLen(_, _)
JoinedLen(low, high) ==
    IF high <= low THEN 0
    ELSE IF high = low + 1 THEN Len(dl_words[high])
    ELSE JoinedLen(low, high - 1) + 1 + Len(dl_words[high])

\* C26: every line divide_lines builds is width-bounded and greedy: its words
\* joined by single spaces are shorter than max_columns, unless it is a
\* single word that is itself max_columns long or longer, and it ends only
\* where the next word would bring the joined length to max_columns or
\* beyond, or where the words end.
C26_LinesGreedyAndBounded ==
    DlCorpusLike =>
        \A i \in 1..Len(dl_lines) :
            LET low == dl_lines[i][1]
                high == dl_lines[i][2]
            IN /\ \/ JoinedLen(low, high) < dl_max_columns
                  \/ high = low + 1 /\ Len(dl_words[high]) >= dl_max_columns
               /\ high < Len(dl_words) =>
                     JoinedLen(low, high + 1) >= dl_max_columns

\* Three words divided into a line of two words, ended by the width, and a
\* line of one word, ended by the end of the words.
C26_Witness ==
    /\ dl_pc = "return" /\ DlCorpusLike
    /\ Len(dl_words) = 3
    /\ dl_lines = <<<<0, 2>>, <<2, 3>>>>

(***************************************************************************)
(* The game state and GameExecutor, tenff/game.py.                         *)
(*                                                                         *)
(* The executor's methods are operators on a record g of the mutable       *)
(* fields of GameState (plus the clock and the history), so that a handler *)
(* which calls several methods is their composition.  g.later says that    *)
(* the step has not read the clock yet, and d is the time that passes      *)
(* before a method reads it again.                                         *)
(***************************************************************************)
UNTYPED == "UNTYPED"
TYPING_WELL == "TYPING_WELL"
TYPING_WRONG == "TYPING_WRONG"
TYPED_WELL == "TYPED_WELL"
TYPED_WRONG == "TYPED_WRONG"

Typing == {TYPING_WELL, TYPING_WRONG}
Typed == {TYPED_WELL, TYPED_WRONG}

\* ord() of the characters the model uses
Ord(c) ==
    CASE c = "SOH" -> 1
      [] c = "ETX" -> 3
      [] c = "TAB" -> 9
      [] c = "ETB" -> 23
      [] c = " " -> 32
      [] c = "a" -> 97
      [] c = "c" -> 99
      [] c = "d" -> 100
      [] c = "g" -> 103
      [] c = "o" -> 111
      [] c = "t" -> 116
      [] c = "x" -> 120
      [] c = "DEL" -> 127

\* The corpus: words without whitespace, as parse_corpus yields them.
Corpus == {<<"a">>, <<"a", "a">>}

\* The word samples tried: the two words of the corpus in turn, starting with
\* either.
WordSamples ==
    {[i \in 1..NumWords |-> IF i % 2 = 1 THEN <<"a">> ELSE <<"a", "a">>],
     [i \in 1..NumWords |-> IF i % 2 = 1 THEN <<"a", "a">> ELSE <<"a">>]}

\* The key events the input callback can deliver: one byte, several bytes
\* read together, or no byte at all, which is what a read at the end of the
\* input gives (the terminal has hung up).
Keys == {<<"a">>, <<" ">>, <<"ETX">>, <<"DEL">>, <<"ETB">>, <<"SOH">>,
         <<"a", "a">>, <<"a", " ">>, <<>>}

G == [status |-> status,
      current_word_index |-> current_word_index,
      word_input |-> word_input,
      time_left |-> time_left,
      start_time |-> start_time,
      end_time |-> end_time,
      keys_pressed |-> keys_pressed,
      current_word_keys_pressed |-> current_word_keys_pressed,
      timer_future |-> timer_future,
      must_cancel |-> must_cancel,
      now |-> now,
      calls |-> calls,
      aborted |-> aborted,
      later |-> TRUE]

\* g written back to the variables
Becomes(g) ==
    /\ status' = g.status
    /\ current_word_index' = g.current_word_index
    /\ word_input' = g.word_input
    /\ time_left' = g.time_left
    /\ start_time' = g.start_time
    /\ end_time' = g.end_time
    /\ keys_pressed' = g.keys_pressed
    /\ current_word_keys_pressed' = g.current_word_keys_pressed
    /\ timer_future' = g.timer_future
    /\ must_cancel' = g.must_cancel
    /\ now' = g.now
    /\ calls' = g.calls
    /\ aborted' = g.aborted

\* time.time(): the first reading is the origin 0 of the model's time.  A
\* reading in a later step of the event loop is later than the one before it;
\* a second reading in the same step is d after the first (d = 0: the clock
\* has not moved on between the two calls).
ReadClock(g, d) ==
    IF g.now = None THEN 0
    ELSE Min(g.now + (IF g.later THEN 1 ELSE d), MaxClock)

\* GameState.is_started, is_finished
IsStarted(g) == g.start_time # None
IsFinished(g) == g.end_time # None

\* asyncio.Task.cancel() on the tick task: a task waiting in its sleep is woken
\* with the cancellation; one that has a step scheduled, or is the caller
\* itself, gets it at its next step; a finished task is left alone.
Cancel(g) ==
    CASE g.timer_future = "sleeping" ->
             [g EXCEPT !.timer_future = "woken", !.must_cancel = TRUE]
      [] g.timer_future \in {"created", "woken", "running"} ->
             [g EXCEPT !.must_cancel = TRUE]
      [] OTHER -> g

\* GameExecutor.start
Start(g, d) ==
    [g EXCEPT !.start_time = ReadClock(g, d),
              !.now = ReadClock(g, d),
              !.later = FALSE,
              !.calls = Append(@, "start")]

\* finish() that does not cancel the tick task
Finish_NoCancel(g, d) ==
    [g EXCEPT !.end_time = ReadClock(g, d),
              !.now = ReadClock(g, d),
              !.later = FALSE,
              !.calls = Append(@, "finish")]

\* GameExecutor.finish
Finish(g, d) ==
    LET g1 == [g EXCEPT !.end_time = ReadClock(g, d),
                        !.now = ReadClock(g, d),
              !.later = FALSE,
                        !.calls = Append(@, "finish")]
    IN IF g1.timer_future # NoTask THEN Cancel(g1) ELSE g1

\* tick() that never finishes the game
Tick_NeverFinishes(g, d) == [g EXCEPT !.time_left = @ - 1]

\* GameExecutor.tick
Tick(g, d) ==
    LET g1 == [g EXCEPT !.time_left = @ - 1]
    IN IF g1.time_left = 0 THEN Finish(g1, d) ELSE g1

\* update_typing_status() that compares the whole word with the buffer
UpdateTypingStatus_WholeWord(g) ==
    [g EXCEPT !.status[g.current_word_index + 1] =
        IF words[g.current_word_index + 1] = g.word_input
        THEN TYPING_WELL ELSE TYPING_WRONG]

\* GameExecutor.update_typing_status
UpdateTypingStatus(g) ==
    [g EXCEPT !.status[g.current_word_index + 1] =
        IF StartsWith(words[g.current_word_index + 1], g.word_input)
        THEN TYPING_WELL ELSE TYPING_WRONG]

\* word_input[:-1]
DropLast(s) == IF s = <<>> THEN <<>> ELSE SubSeq(s, 1, Len(s) - 1)

\* backspace_pressed() that does not count the key as an edit
BackspacePressed_Uncounted(g) ==
    UpdateTypingStatus(
        [g EXCEPT !.word_input = DropLast(@),
                  !.calls = Append(@, "backspace_pressed")])

\* GameExecutor.backspace_pressed
BackspacePressed(g) ==
    UpdateTypingStatus(
        [g EXCEPT !.word_input = DropLast(@),
                  !.current_word_keys_pressed = @ + 1,
                  !.calls = Append(@, "backspace_pressed")])

\* word_backspace_pressed() that marks the word as not typed yet
WordBackspacePressed_Untypes(g) ==
    [g EXCEPT !.word_input = <<>>,
              !.current_word_keys_pressed = @ + 1,
              !.status[g.current_word_index + 1] = UNTYPED,
              !.calls = Append(@, "word_backspace_pressed")]

\* word_backspace_pressed() that deletes one character only
WordBackspacePressed_DropsOne(g) ==
    UpdateTypingStatus(
        [g EXCEPT !.word_input = DropLast(@),
                  !.current_word_keys_pressed = @ + 1,
                  !.calls = Append(@, "word_backspace_pressed")])

\* GameExecutor.word_backspace_pressed
WordBackspacePressed(g) ==
    UpdateTypingStatus(
        [g EXCEPT !.word_input = <<>>,
                  !.current_word_keys_pressed = @ + 1,
                  !.calls = Append(@, "word_backspace_pressed")])

\* key_pressed() that does not count the key as an edit
KeyPressed_Uncounted(g, key) ==
    UpdateTypingStatus(
        [g EXCEPT !.word_input = @ \o key,
                  !.calls = Append(@, "key_pressed")])

\* GameExecutor.key_pressed
KeyPressed(g, key) ==
    UpdateTypingStatus(
        [g EXCEPT !.word_input = @ \o key,
                  !.current_word_keys_pressed = @ + 1,
                  !.calls = Append(@, "key_pressed")])

\* word_finished() that does not mark the next word as the one being typed
WordFinished_NextUnmarked(g, d) ==
    LET i == g.current_word_index + 1
        g1 == [g EXCEPT !.keys_pressed = @ + g.current_word_keys_pressed + 1,
                        !.current_word_keys_pressed = 0,
                        !.status[i] = IF words[i] = g.word_input
                                      THEN TYPED_WELL ELSE TYPED_WRONG,
                        !.word_input = <<>>,
                        !.current_word_index = @ + 1,
                        !.calls = Append(@, "word_finished")]
    IN IF g1.current_word_index = Len(words) THEN Finish(g1, d) ELSE g1

\* word_finished() that leaves the committed word in its typing status
WordFinished_StatusKept(g, d) ==
    LET g1 == [g EXCEPT !.keys_pressed = @ + g.current_word_keys_pressed + 1,
                        !.current_word_keys_pressed = 0,
                        !.word_input = <<>>,
                        !.current_word_index = @ + 1,
                        !.calls = Append(@, "word_finished")]
    IN IF g1.current_word_index = Len(words)
       THEN Finish(g1, d)
       ELSE [g1 EXCEPT !.status[g1.current_word_index + 1] = TYPING_WELL]

\* word_finished() that overwrites keys_pressed with the word's own count
WordFinished_KeysOverwritten(g, d) ==
    LET i == g.current_word_index + 1
        g1 == [g EXCEPT !.keys_pressed = g.current_word_keys_pressed + 1,
                        !.current_word_keys_pressed = 0,
                        !.status[i] = IF words[i] = g.word_input
                                      THEN TYPED_WELL ELSE TYPED_WRONG,
                        !.word_input = <<>>,
                        !.current_word_index = @ + 1,
                        !.calls = Append(@, "word_finished")]
    IN IF g1.current_word_index = Len(words)
       THEN Finish(g1, d)
       ELSE [g1 EXCEPT !.status[g1.current_word_index + 1] = TYPING_WELL]

\* word_finished() that accepts a buffer the target word starts with
WordFinished_PrefixAccepted(g, d) ==
    LET i == g.current_word_index + 1
        g1 == [g EXCEPT !.keys_pressed = @ + g.current_word_keys_pressed + 1,
                        !.current_word_keys_pressed = 0,
                        !.status[i] = IF StartsWith(words[i], g.word_input)
                                      THEN TYPED_WELL ELSE TYPED_WRONG,
                        !.word_input = <<>>,
                        !.current_word_index = @ + 1,
                        !.calls = Append(@, "word_finished")]
    IN IF g1.current_word_index = Len(words)
       THEN Finish(g1, d)
       ELSE [g1 EXCEPT !.status[g1.current_word_index + 1] = TYPING_WELL]

\* GameExecutor.word_finished
WordFinished(g, d) ==
    LET i == g.current_word_index + 1
        g1 == [g EXCEPT !.keys_pressed = @ + g.current_word_keys_pressed + 1,
                        !.current_word_keys_pressed = 0,
                        !.status[i] = IF words[i] = g.word_input
                                      THEN TYPED_WELL ELSE TYPED_WRONG,
                        !.word_input = <<>>,
                        !.current_word_index = @ + 1,
                        !.calls = Append(@, "word_finished")]
    IN IF g1.current_word_index = Len(words)
       THEN Finish(g1, d)
       ELSE [g1 EXCEPT !.status[g1.current_word_index + 1] = TYPING_WELL]

\* re.match(r"\s", key): the key starts with a whitespace character
MatchesSpace(key) == key # <<>> /\ IsSpace(key[1])

\* asyncio.ensure_future(self.timer()): the tick task, its first step scheduled
LaunchTimer(g) ==
    [g EXCEPT !.timer_future = "created",
              !.must_cancel = FALSE,
              !.calls = Append(@, "ensure_future")]

\* a routing whose whitespace branch does not look at rigorous_spaces
RouteKey_SpacesNeverRigorous(g, key, d) ==
    CASE key = <<"ETX">> -> [Finish(g, d) EXCEPT !.aborted = TRUE]
      [] key = <<"DEL">> -> BackspacePressed(g)
      [] key = <<"ETB">> -> WordBackspacePressed(g)
      [] key \notin {<<"ETX">>, <<"DEL">>, <<"ETB">>} /\ MatchesSpace(key) ->
             IF g.word_input # <<>> THEN WordFinished(g, d) ELSE g
      [] key \notin {<<"ETX">>, <<"DEL">>, <<"ETB">>} /\ ~MatchesSpace(key)
            /\ (Len(key) > 1 \/ Ord(key[1]) >= 32) -> KeyPressed(g, key)
      [] OTHER -> g

\* consume_key lines 164-174: the routing of a key to its action
RouteKey(g, key, d) ==
    CASE key = <<"ETX">> -> [Finish(g, d) EXCEPT !.aborted = TRUE]
      [] key = <<"DEL">> -> BackspacePressed(g)
      [] key = <<"ETB">> -> WordBackspacePressed(g)
      [] key \notin {<<"ETX">>, <<"DEL">>, <<"ETB">>} /\ MatchesSpace(key) ->
             IF g.word_input # <<>> \/ rigorous_spaces
             THEN WordFinished(g, d) ELSE g
      [] key \notin {<<"ETX">>, <<"DEL">>, <<"ETB">>} /\ ~MatchesSpace(key)
            /\ (Len(key) > 1 \/ Ord(key[1]) >= 32) -> KeyPressed(g, key)
      [] OTHER -> g

\* consume_key that starts the game and a tick task on every key
StartIfNotStarted_EveryKey(g, d) == LaunchTimer(Start(g, d))

\* consume_key that launches no tick task when the key has ended the game
StartIfNotStarted_UnlessFinished(g, d) ==
    IF ~IsStarted(g)
    THEN IF IsFinished(g) THEN Start(g, d) ELSE LaunchTimer(Start(g, d))
    ELSE g

\* consume_key lines 176-180: the first key starts the game and its tick task
StartIfNotStarted(g, d) ==
    IF ~IsStarted(g) THEN LaunchTimer(Start(g, d)) ELSE g

\* consume_key line 173: ord(key) of the empty string raises TypeError; no
\* other test of a key raises
KeyRaises(key) == key = <<>>

\* GameExecutor.consume_key; when it raises no field has been written
ConsumeKey(g, key, d1, d2) ==
    IF KeyRaises(key)
    THEN [g EXCEPT !.calls = <<>>]
    ELSE StartIfNotStarted(RouteKey([g EXCEPT !.calls = <<>>], key, d1), d2)

(***************************************************************************)
(* run_game, the tick task and the input callback on the asyncio loop.     *)
(* The loop runs one task at a time: while the main loop is at "loop" it   *)
(* has not yet awaited, and nothing else runs.                             *)
(***************************************************************************)
DlIdle ==
    /\ dl_words = <<>> /\ dl_max_columns = 1 /\ dl_words_left = <<>>
    /\ dl_current_line = <<>> /\ dl_low = 0 /\ dl_lines = <<>> /\ dl_pc = "idle"

Delays == 0..1

\* GameState.__init__ and the start of run_game
Init ==
    /\ DlIdle
    /\ words \in WordSamples
    /\ status = [i \in 1..NumWords |-> IF i = 1 THEN TYPING_WELL ELSE UNTYPED]
    /\ current_word_index = 0
    /\ word_input = <<>>
    /\ max_time \in 0..MaxTime
    /\ time_left = max_time
    /\ start_time = None
    /\ end_time = None
    /\ keys_pressed = 0
    /\ current_word_keys_pressed = 0
    /\ timer_future = NoTask
    /\ must_cancel = FALSE
    /\ rigorous_spaces \in BOOLEAN
    /\ main_pc = "loop"
    /\ input_queue = <<>>
    /\ pending_puts = <<>>
    /\ now = None
    /\ calls = <<>>
    /\ aborted = FALSE
    /\ keys_typed = 0 /\ script_pos = 0
    /\ hung_up = FALSE /\ loop_stopped = FALSE

Settings == <<words, rigorous_spaces, max_time>>

\* run_game lines 351-358: a key is waiting and is consumed; an exception of
\* consume_key ends run_game
MainConsume ==
    /\ main_pc = "loop"
    /\ end_time = None
    /\ input_queue # <<>>
    /\ \E d1 \in Delays, d2 \in Delays :
          Becomes(ConsumeKey(G, Head(input_queue), d1, d2))
    /\ input_queue' = Tail(input_queue)
    /\ main_pc' = IF KeyRaises(Head(input_queue)) THEN "type_error" ELSE main_pc
    /\ UNCHANGED <<pending_puts, keys_typed, script_pos, term_vars, Settings, dl_vars>>

\* a poll of the empty queue that counts the time down
MainPoll_CountsDown ==
    /\ main_pc = "loop"
    /\ end_time = None
    /\ input_queue = <<>>
    /\ main_pc' = "sleep"
    /\ time_left' = time_left - 1
    /\ UNCHANGED <<words, status, current_word_index, word_input, start_time,
                   end_time, keys_pressed, current_word_keys_pressed,
                   timer_future, must_cancel, rigorous_spaces, max_time,
                   input_queue, pending_puts, now, calls, aborted, keys_typed, script_pos, term_vars,
                   dl_vars>>

\* run_game lines 351-356: the queue is empty, the loop sleeps 0.05 s
MainPoll ==
    /\ main_pc = "loop"
    /\ end_time = None
    /\ input_queue = <<>>
    /\ main_pc' = "sleep"
    /\ UNCHANGED <<game_vars, input_queue, pending_puts, now, calls, aborted,
                   keys_typed, script_pos, term_vars, dl_vars>>

\* the 0.05 s sleep is over
MainWake ==
    /\ main_pc = "sleep"
    /\ main_pc' = "loop"
    /\ UNCHANGED <<game_vars, input_queue, pending_puts, now, calls, aborted,
                   keys_typed, script_pos, term_vars, dl_vars>>

\* run_game lines 351, 360-362: the loop ends, the tick task is awaited
MainExit ==
    /\ main_pc = "loop"
    /\ end_time # None
    /\ main_pc' = IF timer_future = NoTask THEN "assert_failed" ELSE "await_timer"
    /\ UNCHANGED <<game_vars, input_queue, pending_puts, now, calls, aborted,
                   keys_typed, script_pos, term_vars, dl_vars>>

(***************************************************************************)
(* render_stats, tenff/game.py 270-333.  A float is a fraction num / den   *)
(* left undivided, so that the divisor each figure is computed from stays  *)
(* visible.                                                                *)
(***************************************************************************)
RECURSIVE SumOver(_, _)
SumOver(S, f) ==
    IF S = {} THEN 0
    ELSE LET x == CHOOSE y \in S : TRUE IN f[x] + SumOver(S \ {x}, f)

\* sum(len(word) + 1 for word in ...) over the words with the given status
CharactersOf(st) ==
    SumOver({i \in 1..Len(words) : status[i] = st},
            [i \in 1..Len(words) |-> Len(words[i]) + 1])

CorrectCharacters == CharactersOf(TYPED_WELL)
WrongCharacters == CharactersOf(TYPED_WRONG)
TotalCharacters == CorrectCharacters + WrongCharacters

\* lines 286-291: cps
Cps ==
    IF end_time = None \/ start_time = None
    THEN [num |-> 0, den |-> 1]
    ELSE [num |-> CorrectCharacters, den |-> end_time - start_time]

\* lines 293-297: accuracy
Accuracy ==
    IF keys_pressed # 0
    THEN [num |-> CorrectCharacters, den |-> keys_pressed]
    ELSE [num |-> 1, den |-> 1]

\* a division of render_stats raises ZeroDivisionError
StatsRaises == Cps.den = 0 \/ Accuracy.den = 0

\* where run_game is after render_stats
AfterStats == IF StatsRaises THEN "zero_division" ELSE "stats"

\* run_game that renders the stats without awaiting the tick task
MainStats_NoAwait ==
    /\ main_pc = "await_timer"
    /\ main_pc' = AfterStats
    /\ UNCHANGED <<game_vars, input_queue, pending_puts, now, calls, aborted,
                   keys_typed, script_pos, term_vars, dl_vars>>

\* run_game lines 362-365: the tick task is over, the stats are rendered
MainStats ==
    /\ main_pc = "await_timer"
    /\ timer_future \in {"done", "cancelled"}
    /\ main_pc' = AfterStats
    /\ UNCHANGED <<game_vars, input_queue, pending_puts, now, calls, aborted,
                   keys_typed, script_pos, term_vars, dl_vars>>

\* run_game (or Game.run) has returned or raised
RunEnded ==
    main_pc \in {"stats", "zero_division", "type_error", "assert_failed",
                 "termios_error"}

\* The event loop runs its callbacks: run_game is suspended in an await, or
\* it has ended (returned or raised) and loop.run_until_complete, which
\* stops the loop by a callback of its own, has not stopped it yet.
LoopRunning == main_pc # "loop" /\ ~loop_stopped

\* main(): run_game has ended and the callback of loop.run_until_complete
\* stops the loop; whatever was scheduled and has not run never runs
LoopStops ==
    /\ RunEnded
    /\ ~loop_stopped
    /\ loop_stopped' = TRUE
    /\ UNCHANGED <<game_vars, main_pc, input_queue, pending_puts, now, calls,
                   aborted, keys_typed, script_pos, hung_up, dl_vars>>

\* timer(), first step: cancelled before it ran, or the loop test and the sleep
TimerFirstStep ==
    /\ LoopRunning
    /\ timer_future = "created"
    /\ timer_future' = IF must_cancel THEN "cancelled"
                       ELSE IF end_time # None THEN "done" ELSE "sleeping"
    /\ must_cancel' = FALSE
    /\ UNCHANGED <<words, status, current_word_index, word_input, time_left,
                   start_time, end_time, keys_pressed, current_word_keys_pressed,
                   rigorous_spaces, max_time, loop_vars, dl_vars>>

\* asyncio.sleep(1) is over: the task's next step is scheduled
TimerSleepOver ==
    /\ LoopRunning
    /\ timer_future = "sleeping"
    /\ timer_future' = "woken"
    /\ UNCHANGED <<words, status, current_word_index, word_input, time_left,
                   start_time, end_time, keys_pressed, current_word_keys_pressed,
                   must_cancel, rigorous_spaces, max_time, loop_vars, dl_vars>>

\* timer() whose step after the sleep ticks even when it was cancelled
TimerAfterSleep_CancelIgnored(g, d) ==
    LET g1 == Tick([g EXCEPT !.timer_future = "running"], d)
    IN IF IsFinished(g1)
       THEN [g1 EXCEPT !.timer_future = IF g1.must_cancel THEN "cancelled"
                                        ELSE "done",
                       !.must_cancel = FALSE]
       ELSE [g1 EXCEPT !.timer_future = "sleeping"]

\* timer() lines 186-192, from the end of a sleep to the next sleep or the end
TimerAfterSleep(g, d) ==
    IF g.must_cancel
    THEN [g EXCEPT !.timer_future = "done", !.must_cancel = FALSE]
    ELSE LET g1 == Tick([g EXCEPT !.timer_future = "running"], d)
         IN IF IsFinished(g1)
            THEN [g1 EXCEPT !.timer_future = IF g1.must_cancel THEN "cancelled"
                                             ELSE "done",
                            !.must_cancel = FALSE]
            ELSE [g1 EXCEPT !.timer_future = "sleeping"]

TimerStep ==
    /\ LoopRunning
    /\ timer_future = "woken"
    /\ must_cancel \/ time_left > -MaxOverrun
    /\ \E d \in Delays : Becomes([TimerAfterSleep(G, d) EXCEPT !.calls = calls])
    /\ UNCHANGED <<main_pc, input_queue, pending_puts, keys_typed, script_pos, term_vars, Settings, dl_vars>>

\* TerminalInputHandler._got_input: the bytes read become one key event, and
\* a task that puts it on the queue is scheduled
GotInput ==
    /\ LoopRunning
    /\ keys_typed < MaxKeys
    /\ \E key \in Keys : pending_puts' = Append(pending_puts, key)
    /\ keys_typed' = keys_typed + 1
    /\ UNCHANGED <<script_pos, term_vars>>
    /\ UNCHANGED <<game_vars, main_pc, input_queue, now, calls, aborted, dl_vars>>

\* a put that places the key event at the front of the queue
PutStep_AtFront ==
    /\ LoopRunning
    /\ pending_puts # <<>>
    /\ input_queue' = <<Head(pending_puts)>> \o input_queue
    /\ pending_puts' = Tail(pending_puts)
    /\ UNCHANGED <<game_vars, main_pc, now, calls, aborted, keys_typed, script_pos, term_vars, dl_vars>>

\* the input_queue.put(keys_str) task runs
PutStep ==
    /\ LoopRunning
    /\ pending_puts # <<>>
    /\ input_queue' = Append(input_queue, Head(pending_puts))
    /\ pending_puts' = Tail(pending_puts)
    /\ UNCHANGED <<game_vars, main_pc, now, calls, aborted, keys_typed, script_pos, term_vars, dl_vars>>

Next ==
    \/ MainConsume \/ MainPoll \/ MainWake \/ MainExit \/ MainStats
    \/ TimerFirstStep \/ TimerSleepOver \/ TimerStep
    \/ GotInput \/ PutStep
    \/ LoopStops

Spec == Init /\ [][Next]_vars

(***************************************************************************)
(* Claims about the game, checked under Spec.                              *)
(***************************************************************************)
TypingWords == {i \in 1..Len(words) : status[i] \in Typing}

\* C3: while the game is not finished exactly one word holds a typing status,
\* the word at current_word_index.
C3_OneTypingWord == end_time = None => TypingWords = {current_word_index + 1}

\* An unfinished game, started and ticked, whose first word is committed and
\* whose second word is being typed wrongly.
C3_Witness ==
    /\ end_time = None /\ start_time # None
    /\ time_left < max_time
    /\ current_word_index = 1
    /\ status[1] \in Typed
    /\ status[2] = TYPING_WRONG

InCalls(name) == \E i \in 1..Len(calls) : calls[i] = name

\* C6: when a key event starts the game, start() is the first method
\* consume_key invokes, before the action the key is routed to.
C6_StartBeforeAction == InCalls("start") => calls[1] = "start"

\* the main loop is about to consume this key
Consuming(key) ==
    /\ main_pc = "loop" /\ end_time = None
    /\ input_queue # <<>> /\ Head(input_queue) = key

\* C7: consuming a control character below 32 that the routing does not list
\* leaves the game state unchanged; it neither records the start timestamp
\* nor launches the tick task.
C7_IgnoredKeyChangesNothing ==
    [][Consuming(<<"SOH">>) => UNCHANGED game_vars]_vars

\* C8: time_left is never negative.
C8_TimeLeftNeverNegative == time_left >= 0

\* C9: the game is finished if and only if every word is committed, or the
\* remaining time has reached 0, or an abort key has been consumed.
C9_FinishedIff ==
    (end_time # None) <=>
        (current_word_index = Len(words) \/ time_left = 0 \/ aborted)

\* With a time budget of 1 or more the equivalence of C9 holds.
FinishedIffWhenBudgeted == max_time >= 1 => C9_FinishedIff

\* consume_key has called start(), which writes the start timestamp, after
\* the finish() of the same call had finished the game
StartAfterFinish ==
    \E i \in 1..Len(calls), j \in 1..Len(calls) :
        i < j /\ calls[i] = "finish" /\ calls[j] = "start"

\* C10: once the game is finished nothing changes the word statuses,
\* current_word_index, the input buffer, time_left, keys_pressed, the per-word
\* edit counter or the two timestamps: no later step of the main loop or of
\* the tick task, and no later operation of the key handler that finished it.
C10_FinishedIsImmutable ==
    [][/\ end_time # None =>
             UNCHANGED <<status, current_word_index, word_input, time_left,
                         keys_pressed, current_word_keys_pressed, start_time,
                         end_time>>
       /\ ~StartAfterFinish']_vars

\* The part of C10 that holds: no step taken from a finished state changes
\* the fields.
FinishedStateKeptByLaterSteps ==
    [][end_time # None =>
          UNCHANGED <<status, current_word_index, word_input, time_left,
                      keys_pressed, current_word_keys_pressed, start_time,
                      end_time>>]_vars

\* The stats are rendered after an abort: the tick task was cancelled in its
\* sleep with time to spare, and a key typed after the abort is left unconsumed.
AbortedGameKeptReached ==
    /\ main_pc = "stats" /\ aborted
    /\ timer_future = "done"
    /\ time_left > 0
    /\ input_queue # <<>>

\* C11: once the game is finished, whichever path called finish(), no tick is
\* applied: no step changes time_left, and the tick task does not start
\* another sleep or another tick.
C11_NoTickAfterFinish ==
    [][end_time # None =>
          /\ time_left' = time_left
          /\ timer_future' \notin {"sleeping", "running"}]_vars

\* The last word was committed right after the key that started the game,
\* before the tick task had run its first step: the task ended cancelled and
\* the stats are rendered with the whole budget left.
C11_Witness ==
    /\ main_pc = "stats" /\ ~aborted
    /\ current_word_index = Len(words)
    /\ timer_future = "cancelled"
    /\ max_time > 0 /\ time_left = max_time

IsPrefix(s, t) == Len(s) <= Len(t) /\ SubSeq(t, 1, Len(s)) = s

\* render_stats has been invoked: it returned, or it raised
StatsRendered == {"stats", "zero_division"}

\* the tick task has exited
TimerOver == timer_future \in {"done", "cancelled"}

\* C12: once the game is finished the main loop takes no further key from
\* the queue; the stats are rendered only from the wait for the tick task,
\* when the game is finished and the tick task has exited; they are rendered
\* once, run_game doing nothing after them; and the assertion that the tick
\* task exists never fails.
C12_StatsAfterTimerExit ==
    [][/\ end_time # None => IsPrefix(input_queue, input_queue')
       /\ main_pc' \in StatsRendered =>
             /\ main_pc \in {"await_timer"} \cup StatsRendered
             /\ end_time # None /\ end_time' = end_time
             /\ TimerOver /\ timer_future' = timer_future
       /\ main_pc \in StatsRendered => main_pc' = main_pc
       /\ main_pc' # "assert_failed"]_vars

\* The stats are rendered after the tick that brought time_left to 0: the tick
\* task cancelled itself, and a key typed during the last second is left on
\* the queue.
C12_Witness ==
    /\ main_pc = "stats" /\ ~aborted
    /\ current_word_index < Len(words)
    /\ time_left = 0 /\ timer_future = "cancelled"
    /\ input_queue # <<>>

\* The asyncio loop runs every callback it has scheduled: the main loop's
\* wake-up and its steps, and the steps of the tick task.
SpecFair ==
    /\ Spec
    /\ WF_vars(MainWake) /\ WF_vars(MainExit) /\ WF_vars(MainStats)
    /\ WF_vars(TimerFirstStep) /\ WF_vars(TimerStep)

\* run_game has ended by the exception of consume_key
RunGameRaised == main_pc = "type_error"

\* Under SpecFair a game finished while run_game runs gets to the call of
\* render_stats.
StatsEventuallyRendered ==
    (end_time # None /\ ~RunGameRaised) ~> (main_pc \in StatsRendered)

\* the key events the callback has produced and the main loop has not yet
\* taken, oldest first
KeyStream == input_queue \o pending_puts

\* what the key actions write
KeyFields == <<status, current_word_index, word_input, keys_pressed,
               current_word_keys_pressed, start_time, calls, aborted>>

\* C13: key events are applied in the order the input callback produced
\* them, each once, one at a time.  Every step either leaves the stream of
\* waiting events and what the key actions write as they are, or lets the
\* callback add one event at the end of the stream and nothing else, or takes
\* the oldest event off the stream and applies consume_key of exactly that
\* event, whole, with no tick in the same step.
C13_KeysAppliedInOrder ==
    [][\/ /\ KeyStream' = KeyStream
          /\ UNCHANGED KeyFields
       \/ /\ \E key \in Keys : KeyStream' = Append(KeyStream, key)
          /\ UNCHANGED <<game_vars, now, calls, aborted>>
       \/ /\ KeyStream # <<>> /\ KeyStream' = Tail(KeyStream)
          /\ end_time = None
          /\ time_left' = time_left
          /\ \E d1 \in Delays, d2 \in Delays :
                Becomes(ConsumeKey(G, Head(KeyStream), d1, d2))]_vars

\* Three events applied in the order typed: 'a' and a space commit the first
\* word "a" as correct, and the third event 'a' is in the buffer.
C13_Witness ==
    /\ words[1] = <<"a">> /\ status[1] = TYPED_WELL
    /\ current_word_index = 1 /\ word_input = <<"a">>
    /\ keys_pressed = 2 /\ current_word_keys_pressed = 1
    /\ keys_typed = 3 /\ KeyStream = <<>>
    /\ end_time = None

\* C14: in every step current_word_index does not decrease, keys_pressed
\* does not decrease, and, once the game has started, time_left does not
\* increase.
C14_Monotonic ==
    [][/\ current_word_index' >= current_word_index
       /\ keys_pressed' >= keys_pressed
       /\ start_time # None => time_left' <= time_left]_vars

\* A started game in which all three have moved: two words committed, at
\* least one of them after an edit, and a tick applied.
C14_Witness ==
    /\ start_time # None
    /\ current_word_index = 2
    /\ keys_pressed > 2
    /\ time_left < max_time

\* the main loop takes the oldest waiting key event in this step
KeyTaken == KeyStream # <<>> /\ KeyStream' = Tail(KeyStream)

\* C15: each timestamp is written at most once.  Both are unset at
\* construction, with no tick task; the start timestamp is set, and the one
\* tick task launched, by the step that consumes the first key event and by
\* no other; a set timestamp is never written again and the tick task is
\* never replaced.
C15_TimestampsWrittenOnce ==
    /\ start_time = None /\ end_time = None /\ timer_future = NoTask
    /\ [][/\ start_time # None => start_time' = start_time
          /\ end_time # None => end_time' = end_time
          /\ (start_time = None /\ KeyTaken) => start_time' # None
          /\ (start_time = None /\ start_time' # None) =>
                KeyTaken /\ keys_typed = Len(KeyStream)
          /\ (timer_future' = "created" /\ timer_future # "created") =>
                start_time = None /\ timer_future = NoTask
          /\ timer_future # NoTask => timer_future' # NoTask]_vars

\* The part of C15 that holds: no timestamp is written twice and the tick
\* task is never replaced; the start timestamp is set, and the task launched,
\* only by the step that consumes the first key event, and by that step
\* whenever consume_key does not raise.
TimestampsWrittenAtMostOnce ==
    /\ start_time = None /\ end_time = None /\ timer_future = NoTask
    /\ [][/\ start_time # None => start_time' = start_time
          /\ end_time # None => end_time' = end_time
          /\ (start_time = None /\ KeyTaken /\ ~KeyRaises(Head(KeyStream)))
                => start_time' # None
          /\ (start_time = None /\ start_time' # None) =>
                KeyTaken /\ keys_typed = Len(KeyStream)
          /\ (timer_future' = "created" /\ timer_future # "created") =>
                start_time = None /\ timer_future = NoTask
          /\ timer_future # NoTask => timer_future' # NoTask]_vars

\* The first event consumed was the empty one: run_game has ended by the
\* TypeError of consume_key and the game was never started.
EndedUnstartedReached ==
    /\ main_pc = "type_error" /\ start_time = None
    /\ keys_typed - Len(KeyStream) = 1

\* Three key events consumed, the last one committing the last word: the
\* start timestamp is the first key's and the end timestamp a later reading.
C15_Witness ==
    /\ main_pc = "stats" /\ current_word_index = Len(words)
    /\ keys_typed = 3 /\ KeyStream = <<>>
    /\ start_time = 0 /\ end_time > start_time
    /\ time_left < max_time

\* C16: the final statistics never divide by zero and never compute a speed
\* from an elapsed time that is not positive: render_stats does not raise,
\* the divisor of the speed is positive, and with no key counted the
\* accuracy is 1.
C16_StatsNeverDivideByZero ==
    /\ main_pc # "zero_division"
    /\ main_pc = "stats" =>
          /\ Cps.den > 0
          /\ keys_pressed = 0 => Accuracy = [num |-> 1, den |-> 1]

\* The part of C16 that holds: whenever render_stats runs, keys_pressed = 0
\* gives the accuracy 1 and no division by keys_pressed is by zero.
AccuracyDefined ==
    main_pc \in StatsRendered =>
        /\ Accuracy.den > 0
        /\ keys_pressed = 0 => Accuracy = [num |-> 1, den |-> 1]

\* The elapsed time is not positive only when the first key consumed ended
\* the game, finish() reading the clock before start() does.
ElapsedPositiveAfterFirstKey ==
    (main_pc \in StatsRendered /\ keys_typed - Len(KeyStream) > 1) =>
        end_time > start_time

\* the step consumes a key event that consume_key routes to word_finished()
WordCommitted == KeyTaken /\ InCalls("word_finished")'

\* C18: word_finished() sets the current word's status to typed correctly
\* if and only if the input buffer equals the word's text, and to typed
\* wrongly otherwise; either way it clears the buffer, resets the per-word
\* edit counter to 0 and advances current_word_index by exactly 1.
C18_WordFinishedCommits ==
    [][WordCommitted =>
          /\ status'[current_word_index + 1] =
                (IF word_input = words[current_word_index + 1]
                 THEN TYPED_WELL ELSE TYPED_WRONG)
          /\ word_input' = <<>>
          /\ current_word_keys_pressed' = 0
          /\ current_word_index' = current_word_index + 1]_vars

\* Both outcomes: the word "a" committed with the buffer "a", then the word
\* "aa" committed with another buffer.
C18_Witness ==
    /\ words[1] = <<"a">> /\ status[1] = TYPED_WELL
    /\ words[2] = <<"a", "a">> /\ status[2] = TYPED_WRONG
    /\ current_word_index = 2
    /\ calls[1] = "word_finished"
    /\ word_input = <<>> /\ current_word_keys_pressed = 0

\* the step consumes a whitespace key event while the input buffer is empty
SpaceOnEmptyBuffer ==
    /\ KeyTaken /\ MatchesSpace(Head(KeyStream))
    /\ main_pc = "loop" /\ end_time = None
    /\ word_input = <<>>

\* what a commit writes
CommitFields == <<current_word_index, status, word_input, keys_pressed,
                  current_word_keys_pressed>>

\* C19 as claimed: a whitespace event arriving with an empty buffer commits
\* the word as typed wrongly, with current_word_index + 1 and keys_pressed
\* + 1, when rigorous_spaces is on, and changes nothing of what a commit
\* writes when it is off.
C19_SpaceOnEmptyBufferAddsOne ==
    [][SpaceOnEmptyBuffer =>
          IF rigorous_spaces
          THEN /\ status'[current_word_index + 1] = TYPED_WRONG
               /\ current_word_index' = current_word_index + 1
               /\ keys_pressed' = keys_pressed + 1
          ELSE UNCHANGED CommitFields]_vars

\* C19 as amended: with rigorous_spaces on the commit adds the edits made on
\* the word, plus 1, to keys_pressed: 1 when the buffer is empty because
\* nothing was typed, more when it was emptied by backspaces.
C19_SpaceOnEmptyBufferAddsEdits ==
    [][SpaceOnEmptyBuffer =>
          IF rigorous_spaces
          THEN /\ status'[current_word_index + 1] = TYPED_WRONG
               /\ current_word_index' = current_word_index + 1
               /\ keys_pressed' = keys_pressed + current_word_keys_pressed + 1
               /\ current_word_keys_pressed' = 0 /\ word_input' = <<>>
          ELSE UNCHANGED CommitFields]_vars

\* rigorous_spaces on: two key events consumed and two words committed with
\* keys_pressed = 2, so both were whitespace on an empty, unedited buffer.
C19_Witness ==
    /\ rigorous_spaces
    /\ keys_typed = 2 /\ KeyStream = <<>>
    /\ current_word_index = 2 /\ keys_pressed = 2
    /\ status[1] = TYPED_WRONG /\ status[2] = TYPED_WRONG

\* rigorous_spaces off: a whitespace event is about to be consumed with the
\* buffer emptied by edits; the step changes nothing of what a commit writes.
SpaceIgnoredReached ==
    /\ ~rigorous_spaces /\ Consuming(<<" ">>)
    /\ word_input = <<>> /\ current_word_keys_pressed > 0

\* C21: with a time budget T >= 1 the countdown starts at T, every tick
\* lowers time_left by exactly 1 from a positive value in an unfinished game,
\* and the tick finishes the game exactly when it brings time_left to 0,
\* whatever the number of words committed; so time_left is T - k after k
\* ticks and the T-th tick finishes the game.
C21_TickCountsDown ==
    /\ time_left = max_time
    /\ [][(max_time >= 1 /\ time_left' # time_left) =>
             /\ end_time = None /\ time_left >= 1
             /\ time_left' = time_left - 1
             /\ (time_left' = 0) <=> (end_time' # None)
             /\ UNCHANGED <<current_word_index, status, keys_pressed>>]_vars

\* Budget 1: the single tick has finished the game, no word committed.
C21_Witness ==
    /\ max_time = 1 /\ time_left = 0
    /\ end_time # None /\ ~aborted
    /\ current_word_index = 0 /\ keys_pressed = 0
    /\ timer_future = "cancelled"

\* the order of the statuses: not typed yet, being typed, committed
StatusRank(st) == IF st = UNTYPED THEN 0 ELSE IF st \in Typing THEN 1 ELSE 2

\* the words before the current one are committed, the words after it are
\* not typed yet
StatusesFollowIndex ==
    /\ current_word_index \in 0..Len(words)
    /\ \A i \in 1..Len(words) :
          /\ i <= current_word_index => status[i] \in Typed
          /\ i > current_word_index + 1 => status[i] = UNTYPED
    /\ Cardinality({j \in 1..Len(words) : status[j] \in Typed})
          = current_word_index

\* C22: current_word_index is between 0 and len(words), every word before
\* the current one is committed, every word after it is not typed yet, so
\* that the committed words are current_word_index in number; and no step
\* moves the status of a word backwards.
C22_StatusesFollowIndex ==
    /\ []StatusesFollowIndex
    /\ [][\A i \in 1..Len(words) :
             StatusRank(status'[i]) >= StatusRank(status[i])]_vars

\* An aborted game: the first word committed as correct, the second the
\* current one when the abort key came.
C22_Witness ==
    /\ end_time # None /\ aborted
    /\ current_word_index = 1
    /\ status[1] = TYPED_WELL /\ status[2] = TYPING_WELL

\* C23: while the game is not finished the current word is marked as typed
\* well if and only if its text starts with the input buffer, and as typed
\* wrongly otherwise.
C23_TypingStatusIsPrefixTest ==
    end_time = None =>
        /\ StartsWith(words[current_word_index + 1], word_input)
              <=> status[current_word_index + 1] = TYPING_WELL
        /\ ~StartsWith(words[current_word_index + 1], word_input)
              <=> status[current_word_index + 1] = TYPING_WRONG

\* The word "aa" is being typed: after three edits, one of them a deletion,
\* the buffer is "a", a proper prefix of it.
C23_Witness ==
    /\ end_time = None /\ current_word_index = 0
    /\ words[1] = <<"a", "a">> /\ word_input = <<"a">>
    /\ current_word_keys_pressed = 3
    /\ status[1] = TYPING_WELL

\* what neither deletion writes: the index, the key count, the countdown and
\* the statuses of the words other than the current one
UntouchedByDeletion ==
    /\ UNCHANGED <<current_word_index, keys_pressed, time_left>>
    /\ \A i \in 1..Len(words) :
          i # current_word_index + 1 => status'[i] = status[i]

\* C24: backspace_pressed() removes exactly the last character of the input
\* buffer and word_backspace_pressed() empties it; on an empty buffer both
\* leave it empty; both add 1 to the per-word edit counter, also on an empty
\* buffer; neither changes current_word_index, keys_pressed, time_left or
\* the status of a word other than the current one.
C24_DeletionsEditCurrentWordOnly ==
    [][/\ (KeyTaken /\ Head(KeyStream) = <<"DEL">>) =>
             /\ IsPrefix(word_input', word_input)
             /\ Len(word_input') =
                   (IF word_input = <<>> THEN 0 ELSE Len(word_input) - 1)
             /\ current_word_keys_pressed' = current_word_keys_pressed + 1
             /\ UntouchedByDeletion
       /\ (KeyTaken /\ Head(KeyStream) = <<"ETB">>) =>
             /\ word_input' = <<>>
             /\ current_word_keys_pressed' = current_word_keys_pressed + 1
             /\ UntouchedByDeletion]_vars

\* The only key event consumed counted as an edit and left the buffer
\* empty: a backspace or a word backspace on an empty buffer.
C24_Witness ==
    /\ keys_typed = 1 /\ KeyStream = <<>>
    /\ start_time # None /\ end_time = None
    /\ current_word_keys_pressed = 1 /\ word_input = <<>>
    /\ calls[1] \in {"backspace_pressed", "word_backspace_pressed"}

\* A two-character buffer is cut to one character by a backspace.
BackspaceOnTwoReached ==
    /\ calls # <<>> /\ calls[1] = "backspace_pressed"
    /\ keys_typed = 2 /\ KeyStream = <<>>
    /\ word_input = <<"a">> /\ current_word_keys_pressed = 2

\* C28: the accuracy never exceeds 100%: the characters of the words typed
\* correctly, each with its delimiter, are never more than keys_pressed,
\* whatever key events the input callback delivers, events of several
\* characters included.
C28_AccuracyAtMostOne == CorrectCharacters <= keys_pressed

\* What the counting does give: a word typed correctly took at least one
\* edit and its delimiter, so keys_pressed is at least twice the number of
\* words typed correctly.
CorrectWordsCostTwoKeys ==
    2 * Cardinality({i \in 1..Len(words) : status[i] = TYPED_WELL})
        <= keys_pressed

\* The word "aa" committed as correct after two key events, the whole word
\* read as one event and a space.
WordTypedByOneEventReached ==
    /\ words[1] = <<"a", "a">> /\ status[1] = TYPED_WELL
    /\ current_word_index = 1
    /\ keys_typed = 2 /\ KeyStream = <<>>

\* ord(c) of a control character: below 32, or DEL
IsControl(c) == Ord(c) < 32 \/ c = "DEL"

\* C29: the input buffer never holds a whitespace or a control character,
\* also when the character arrived inside an event of several characters.
C29_BufferHoldsNoSeparator ==
    \A i \in 1..Len(word_input) :
        ~IsSpace(word_input[i]) /\ ~IsControl(word_input[i])

\* What the routing does give: the buffer never starts with a whitespace,
\* and an event of one character puts no whitespace or control character
\* into it.
BufferStartsWithNoSpace == word_input = <<>> \/ ~IsSpace(word_input[1])

SingleKeyAddsNoSeparator ==
    [][(KeyTaken /\ Len(Head(KeyStream)) = 1 /\ C29_BufferHoldsNoSeparator)
           => C29_BufferHoldsNoSeparator']_vars

\* a finished game has a tick task
TickTaskExists == end_time # None => timer_future # NoTask

\* the tick task awaited by run_game is over, or the loop has its next step
\* scheduled
TickTaskWillStep ==
    \/ TimerOver
    \/ timer_future = "created"
    \/ timer_future = "woken" /\ must_cancel

\* C30: the assertion that the tick task exists holds on every path out of
\* the main loop: a finished game always has a tick task, also when the
\* first key consumed finished it, and run_game never fails the assertion;
\* and the wait for the tick task ends: while run_game waits the task is
\* over or has a step scheduled, and every game that finishes while run_game
\* runs gets to the call of render_stats with the tick task over.
C30_TickTaskAwaited ==
    /\ [](TickTaskExists /\ main_pc # "assert_failed")
    /\ [](main_pc = "await_timer" => TickTaskWillStep)
    /\ (end_time # None /\ ~RunGameRaised)
          ~> (TimerOver /\ main_pc \in StatsRendered)

\* The first key consumed was the abort key: the tick task was created after
\* finish(), was never cancelled, ended at its first step, and run_game got
\* past the wait.
C30_Witness ==
    /\ main_pc \in StatsRendered /\ aborted
    /\ keys_typed - Len(KeyStream) = 1
    /\ calls = <<"finish", "start", "ensure_future">>
    /\ timer_future = "done"

\* run_game waits for the tick task the first key created after it had
\* aborted the game: the task has not run yet and was never cancelled.
FirstKeyAbortAwaitReached ==
    /\ main_pc = "await_timer" /\ aborted
    /\ keys_typed - Len(KeyStream) = 1
    /\ timer_future = "created" /\ ~must_cancel

\* run_game waits for a tick task that finish() cancelled in its sleep.
CancelledInSleepAwaitReached ==
    /\ main_pc = "await_timer"
    /\ timer_future = "woken" /\ must_cancel

\* The asyncio loop runs every callback it has scheduled and every sleep
\* ends.  The main loop takes its steps and wakes from its 0.05 s sleep.
\* The tick task and a scheduled put can run only while the main loop is
\* suspended, which it is again and again while it polls; the loop runs its
\* ready callbacks in the order they were scheduled, so each of them gets
\* its turn in one of those suspensions: strong fairness.  Nothing makes the
\* user type: GotInput has no fairness.
SpecLive ==
    /\ Spec
    /\ WF_vars(MainConsume) /\ WF_vars(MainPoll) /\ WF_vars(MainWake)
    /\ WF_vars(MainExit) /\ WF_vars(MainStats)
    /\ SF_vars(TimerFirstStep) /\ SF_vars(TimerSleepOver) /\ SF_vars(TimerStep)
    /\ SF_vars(PutStep)

\* C31: with a time budget of 1 or more, once the first key event has been
\* consumed the game finishes and the final stats are rendered, whether or
\* not another key event ever arrives.
C31_StartedGameEndsWithStats ==
    (max_time >= 1 /\ start_time # None) ~> (end_time # None /\ main_pc = "stats")

\* The part of C31 that holds: unless the empty event of a terminal that has
\* hung up ends run_game by an exception, the started game finishes, the
\* tick task ends and render_stats is called.
StartedGameGetsToStats ==
    (max_time >= 1 /\ start_time # None)
        ~> \/ RunGameRaised
           \/ end_time # None /\ TimerOver /\ main_pc \in StatsRendered

\* And, with the same exception, a game that its first key did not finish
\* has its stats rendered: the main loop is not left waiting on an empty
\* queue once the time is out.
GameLeftRunningEndsWithStats ==
    (max_time >= 1 /\ start_time # None /\ end_time = None)
        ~> \/ RunGameRaised
           \/ end_time # None /\ main_pc = "stats"

\* One key consumed and no other typed: the time ran out and the stats are
\* rendered.
TimedOutAfterOneKeyReached ==
    /\ main_pc = "stats" /\ keys_typed = 1 /\ KeyStream = <<>>
    /\ ~aborted /\ max_time >= 1 /\ time_left = 0
    /\ current_word_index < Len(words)

\* no key event has been consumed: every event produced is still waiting
NoKeyConsumed == keys_typed = Len(KeyStream)

\* the game state as GameState.__init__ leaves it
AsConstructed ==
    /\ time_left = max_time
    /\ current_word_index = 0
    /\ word_input = <<>>
    /\ keys_pressed = 0 /\ current_word_keys_pressed = 0
    /\ status = [i \in 1..Len(words) |-> IF i = 1 THEN TYPING_WELL ELSE UNTYPED]
    /\ start_time = None /\ end_time = None
    /\ timer_future = NoTask

\* C32: the countdown does not run before the first key.  As long as no key
\* event has been consumed the state is as constructed: time_left is the
\* time budget, no word is committed, the buffer is empty, no key is
\* counted, the game is neither started nor finished and there is no tick
\* task; and no step changes time_left or finishes a game that has not
\* started.
C32_IdleUntilFirstKey ==
    /\ [](NoKeyConsumed => AsConstructed)
    /\ [][start_time = None =>
             (time_left' = time_left /\ (end_time' # None => start_time' # None))]_vars

\* An idle game the main loop has polled again and again: the user has typed
\* every key event, all of them wait on the queue, the main loop sleeps, and
\* the state is as constructed.
C32_Witness ==
    /\ NoKeyConsumed /\ keys_typed = MaxKeys
    /\ Len(input_queue) = MaxKeys
    /\ main_pc = "sleep" /\ max_time >= 1
    /\ AsConstructed

(***************************************************************************)
(* The lines of the game: GameState.line_boundaries, current_line and      *)
(* shown_line_boundaries.  divide_lines as a function, computed as its     *)
(* loops compute it; the divide_lines variables hold the call __init__     *)
(* made, once it has returned.                                             *)
(***************************************************************************)
\* divide_lines lines 45-51, the inner loop: the words left after the line
RECURSIVE FillLine(_, _, _)
FillLine(words_left, current_line, max_columns) ==
    IF words_left = <<>> THEN words_left
    ELSE IF LineFull(current_line, Head(words_left), max_columns)
         THEN words_left
         ELSE FillLine(Tail(words_left),
                       NewLine(current_line, Head(words_left)), max_columns)

\* divide_lines lines 42-54, the outer loop
RECURSIVE DivideLinesFrom(_, _, _, _)
DivideLinesFrom(ws, words_left, max_columns, lines) ==
    IF words_left = <<>> THEN lines
    ELSE LET rest == FillLine(words_left, <<>>, max_columns)
         IN DivideLinesFrom(ws, rest, max_columns,
                Append(lines, <<Len(ws) - Len(words_left), Len(ws) - Len(rest)>>))

\* divide_lines(words, max_columns)
DivideLines(ws, max_columns) == DivideLinesFrom(ws, ws, max_columns, <<>>)

\* Under SpecLines: what the loop returns is what the function computes.
DivideLinesAgrees ==
    dl_pc = "return" => dl_lines = DivideLines(dl_words, dl_max_columns)

MAX_DISPLAY_LINES == 2

\* the words of the game whose lines are followed: "a", "aa", "a", ...
ViewLen == NumWords + 2

ViewWords == [i \in 1..ViewLen |-> IF i % 2 = 1 THEN <<"a">> ELSE <<"a", "a">>]

\* MAX_COLUMNS, the width of the terminal: one or two of the words per line
ViewCols == 3..(MaxCols + 1)

\* the key events followed: a letter, a space, and the read that found no
\* byte; the lines shown depend on current_word_index alone
ViewKeys == {<<"a">>, <<" ">>, <<>>}

\* GameState.line_boundaries
LineBoundaries == dl_lines

\* low <= index < high
InRange(index, line) == line[1] <= index /\ index < line[2]

\* a current_line that falls back to the first line
CurrentLine_FallsBackToFirst ==
    IF \E i \in 1..Len(LineBoundaries) :
          InRange(current_word_index, LineBoundaries[i])
    THEN (CHOOSE i \in 1..Len(LineBoundaries) :
             /\ InRange(current_word_index, LineBoundaries[i])
             /\ \A j \in 1..(i - 1) :
                   ~InRange(current_word_index, LineBoundaries[j])) - 1
    ELSE 0

\* GameState.current_line (counted from 0, as in the program)
CurrentLine ==
    IF \E i \in 1..Len(LineBoundaries) :
          InRange(current_word_index, LineBoundaries[i])
    THEN (CHOOSE i \in 1..Len(LineBoundaries) :
             /\ InRange(current_word_index, LineBoundaries[i])
             /\ \A j \in 1..(i - 1) :
                   ~InRange(current_word_index, LineBoundaries[j])) - 1
    ELSE Len(LineBoundaries) - 1

\* the i with current + i in range(len(line_boundaries)), in order
RECURSIVE ShownFrom(_, _)
ShownFrom(current, i) ==
    IF i >= MAX_DISPLAY_LINES THEN <<>>
    ELSE (IF current + i >= 0 /\ current + i < Len(LineBoundaries)
          THEN <<LineBoundaries[current + i + 1]>> ELSE <<>>)
         \o ShownFrom(current, i + 1)

\* GameState.shown_line_boundaries
ShownLineBoundaries == ShownFrom(CurrentLine, 0)

\* GameState.__init__ (with its call of divide_lines) and the start of run_game
ViewInit ==
    /\ words = ViewWords
    /\ dl_words = words
    /\ dl_max_columns \in ViewCols
    /\ dl_lines = DivideLines(words, dl_max_columns)
    /\ dl_words_left = <<>> /\ dl_current_line = <<>> /\ dl_low = 0
    /\ dl_pc = "return"
    /\ status = [i \in 1..ViewLen |-> IF i = 1 THEN TYPING_WELL ELSE UNTYPED]
    /\ current_word_index = 0
    /\ word_input = <<>>
    /\ max_time \in 0..MaxTime
    /\ time_left = max_time
    /\ start_time = None
    /\ end_time = None
    /\ keys_pressed = 0
    /\ current_word_keys_pressed = 0
    /\ timer_future = NoTask
    /\ must_cancel = FALSE
    /\ rigorous_spaces \in BOOLEAN
    /\ main_pc = "loop"
    /\ input_queue = <<>>
    /\ pending_puts = <<>>
    /\ now = None
    /\ calls = <<>>
    /\ aborted = FALSE
    /\ keys_typed = 0 /\ script_pos = 0
    /\ hung_up = FALSE /\ loop_stopped = FALSE

\* TerminalInputHandler._got_input: a key event of ViewKeys is read
GotInputView ==
    /\ LoopRunning
    /\ keys_typed < ViewLen + 1
    /\ \E key \in ViewKeys : pending_puts' = Append(pending_puts, key)
    /\ keys_typed' = keys_typed + 1
    /\ UNCHANGED <<script_pos, term_vars>>
    /\ UNCHANGED <<game_vars, main_pc, input_queue, now, calls, aborted, dl_vars>>

NextView ==
    \/ MainConsume \/ MainPoll \/ MainWake \/ MainExit \/ MainStats
    \/ TimerFirstStep \/ TimerSleepOver \/ TimerStep
    \/ GotInputView \/ PutStep
    \/ LoopStops

SpecView == ViewInit /\ [][NextView]_vars

\* some line range contains current_word_index
IndexOnSomeLine ==
    \E i \in 1..Len(LineBoundaries) :
        InRange(current_word_index, LineBoundaries[i])

\* the current line is the range that contains current_word_index, or the
\* last line when none does, which happens only at the end of the words; the
\* ranges shown are the current line and the next one when there is one
CurrentLineContainsIndex ==
    /\ CurrentLine \in 0..(Len(LineBoundaries) - 1)
    /\ IndexOnSomeLine =>
          InRange(current_word_index, LineBoundaries[CurrentLine + 1])
    /\ ~IndexOnSomeLine =>
          /\ current_word_index = Len(words)
          /\ CurrentLine = Len(LineBoundaries) - 1
    /\ ShownLineBoundaries =
          (IF CurrentLine + 1 < Len(LineBoundaries)
           THEN <<LineBoundaries[CurrentLine + 1], LineBoundaries[CurrentLine + 2]>>
           ELSE <<LineBoundaries[CurrentLine + 1]>>)
    /\ Len(ShownLineBoundaries) <= 2

\* C25: in every reachable state the current line is the line range that
\* contains current_word_index, none containing it only when
\* current_word_index = len(words), when the current line is the last one;
\* the ranges shown are the current line followed by the next line when it
\* exists, at most 2, in order; and no step lowers the current line.
C25_CurrentLineFollowsIndex ==
    /\ []CurrentLineContainsIndex
    /\ [][CurrentLine' >= CurrentLine]_vars

\* Every word is committed, over three lines or more: no range contains
\* current_word_index, the current line is the last one and it alone is shown.
C25_Witness ==
    /\ current_word_index = Len(words)
    /\ Len(LineBoundaries) >= 3
    /\ ~IndexOnSomeLine
    /\ CurrentLine = Len(LineBoundaries) - 1
    /\ Len(ShownLineBoundaries) = 1

\* Two words to a line: the third word is the current one, on the second
\* line, which is shown with nothing after it.
SecondLineReached ==
    /\ LineBoundaries = <<<<0, 2>>, <<2, 4>>>>
    /\ current_word_index = 2 /\ CurrentLine = 1
    /\ ShownLineBoundaries = <<<<2, 4>>>>

\* One word to a line: the second word is the current one and the second
\* and third lines are shown.
WindowOfTwoReached ==
    /\ Len(LineBoundaries) = ViewLen
    /\ current_word_index = 1 /\ CurrentLine = 1
    /\ ShownLineBoundaries = <<<<1, 2>>, <<2, 3>>>>

(***************************************************************************)
(* Scripted games: run_game on the words "cat", "dog", "cat", ... with the *)
(* user typing a fixed script of keys, under every interleaving with the   *)
(* main loop and the tick task.  The input callback reads every byte that  *)
(* is waiting, so keys typed close together arrive as one event.           *)
(***************************************************************************)
Cat == <<"c", "a", "t">>
Dog == <<"d", "o", "g">>

ScriptWords == [i \in 1..NumWords |-> IF i % 2 = 1 THEN Cat ELSE Dog]

\* GameState.__init__ and the start of run_game, for the scripted words
ScriptInit ==
    /\ DlIdle
    /\ words = ScriptWords
    /\ status = [i \in 1..NumWords |-> IF i = 1 THEN TYPING_WELL ELSE UNTYPED]
    /\ current_word_index = 0
    /\ word_input = <<>>
    /\ max_time \in 0..MaxTime
    /\ time_left = max_time
    /\ start_time = None
    /\ end_time = None
    /\ keys_pressed = 0
    /\ current_word_keys_pressed = 0
    /\ timer_future = NoTask
    /\ must_cancel = FALSE
    /\ rigorous_spaces \in BOOLEAN
    /\ main_pc = "loop"
    /\ input_queue = <<>>
    /\ pending_puts = <<>>
    /\ now = None
    /\ calls = <<>>
    /\ aborted = FALSE
    /\ keys_typed = 0 /\ script_pos = 0
    /\ hung_up = FALSE /\ loop_stopped = FALSE

\* keys_raw of _got_input: the bytes of the keys read, in order
RECURSIVE KeysRaw(_)
KeysRaw(keys) ==
    IF keys = <<>> THEN <<>> ELSE Head(keys) \o KeysRaw(Tail(keys))

\* TerminalInputHandler._got_input: the keys of the script typed since the
\* last read, one or more, become one event
GotInputScript(script) ==
    /\ LoopRunning
    /\ script_pos < Len(script)
    /\ \E n \in 1..Min(MaxRead, Len(script) - script_pos) :
          /\ pending_puts' =
                Append(pending_puts,
                       KeysRaw(SubSeq(script, script_pos + 1, script_pos + n)))
          /\ script_pos' = script_pos + n
    /\ keys_typed' = keys_typed + 1
    /\ UNCHANGED <<game_vars, main_pc, input_queue, now, calls, aborted,
                   term_vars, dl_vars>>

\* every key typed so far was read as an event of its own
OneKeyPerEvent == keys_typed = script_pos

\* 'c', 'a', 'x', backspace, 't', space
BackspaceScript ==
    <<<<"c">>, <<"a">>, <<"x">>, <<"DEL">>, <<"t">>, <<" ">>>>

GotInputBackspace == GotInputScript(BackspaceScript)

NextBackspace ==
    \/ MainConsume \/ MainPoll \/ MainWake \/ MainExit \/ MainStats
    \/ TimerFirstStep \/ TimerSleepOver \/ TimerStep
    \/ GotInputBackspace \/ PutStep
    \/ LoopStops

SpecBackspace == ScriptInit /\ [][NextBackspace]_vars

\* the main loop consumes the space that ends the backspace scenario, each
\* of its six keys having been read as an event of its own
CommitsCat ==
    /\ KeyTaken /\ Head(KeyStream) = <<" ">>
    /\ script_pos = Len(BackspaceScript) /\ OneKeyPerEvent
    /\ main_pc = "loop" /\ end_time = None
    /\ current_word_index = 0

\* C17 as claimed: for the target "cat", after 'c', 'a', 'x', backspace, 't'
\* the space commits the word as typed correctly with a per-word edit count
\* of 4, adding 5 to keys_pressed.
C17_BackspaceScenarioFourEdits ==
    [][CommitsCat =>
          /\ word_input = Cat /\ status'[1] = TYPED_WELL
          /\ current_word_keys_pressed = 4
          /\ keys_pressed' = keys_pressed + 5]_vars

\* C17 as amended: the word is committed as typed correctly with a per-word
\* edit count of 5, the backspace being an edit like the four characters,
\* and the commit adds 6 to keys_pressed.
C17_BackspaceScenarioFiveEdits ==
    [][CommitsCat =>
          /\ word_input = Cat /\ status'[1] = TYPED_WELL
          /\ current_word_keys_pressed = 5
          /\ keys_pressed' = keys_pressed + 6]_vars

\* The six events of the scenario are consumed and the word is committed.
C17_Witness ==
    /\ keys_typed = 6 /\ OneKeyPerEvent /\ KeyStream = <<>>
    /\ current_word_index = 1 /\ status[1] = TYPED_WELL
    /\ word_input = <<>> /\ current_word_keys_pressed = 0
    /\ keys_pressed = 6

\* one event per letter of the word, then one whitespace event
TypeWord(word) == [j \in 1..Len(word) |-> <<word[j]>>] \o <<<<" ">>>>

RECURSIVE TypeWords(_, _)
TypeWords(ws, n) ==
    IF n = 0 THEN <<>> ELSE TypeWords(ws, n - 1) \o TypeWord(ws[n])

\* every word typed exactly, with no corrections
ExactScript == TypeWords(ScriptWords, NumWords)

GotInputExact == GotInputScript(ExactScript)

NextExact ==
    \/ MainConsume \/ MainPoll \/ MainWake \/ MainExit \/ MainStats
    \/ TimerFirstStep \/ TimerSleepOver \/ TimerStep
    \/ GotInputExact \/ PutStep
    \/ LoopStops

SpecExact == ScriptInit /\ [][NextExact]_vars

\* the key events consumed so far
EventsConsumed == keys_typed - Len(KeyStream)

\* the whitespace events among the first n events of the script
SpacesAmong(script, n) ==
    Cardinality({j \in 1..n : MatchesSpace(script[j])})

\* sum of len(word) + 1 over the first k words
CharactersUpTo(k) ==
    SumOver(1..k, [i \in 1..Len(words) |-> Len(words[i]) + 1])

\* C20: when every word is typed exactly, one single-character event per
\* letter and one whitespace event, then after the k-th whitespace event
\* the first k words are typed correctly, current_word_index = k and
\* keys_pressed is the sum of len(word) + 1 over those k words; after the
\* last word the game is finished; and the final stats have correct
\* characters = keys_pressed, no wrong characters and accuracy 1.
C20_ExactTyping ==
    OneKeyPerEvent =>
        /\ current_word_index = SpacesAmong(ExactScript, EventsConsumed)
        /\ \A i \in 1..current_word_index : status[i] = TYPED_WELL
        /\ keys_pressed = CharactersUpTo(current_word_index)
        /\ EventsConsumed = Len(ExactScript) =>
              current_word_index = Len(words) /\ end_time # None
        /\ main_pc # "zero_division"
        /\ main_pc = "stats" =>
              /\ CorrectCharacters = keys_pressed
              /\ WrongCharacters = 0
              /\ Accuracy.num = Accuracy.den

\* Without that condition the equalities fail: letters read together count
\* as one edit (C28).
ExactTypingWhateverTheReads ==
    /\ current_word_index <= Len(words)
    /\ keys_pressed = CharactersUpTo(current_word_index)

\* Every event of the script is consumed, every word is committed, and the
\* stats are rendered.
C20_Witness ==
    /\ main_pc = "stats" /\ OneKeyPerEvent
    /\ EventsConsumed = Len(ExactScript)
    /\ current_word_index = Len(words)
    /\ keys_pressed = Len(ExactScript)
    /\ CorrectCharacters = Len(ExactScript)

(***************************************************************************)
(* The older variant, 10ff/game.py: GameState mutates itself, finish()     *)
(* cancels nothing, and Game.run ends the main loop's wait with a None     *)
(* that the tick task puts on the queue.                                   *)
(***************************************************************************)
\* the None the tick task puts on the input queue
NoneKey == <<"None">>

\* The key events RawTerminal._got_input can deliver while the terminal is
\* there: the bytes waiting, one or several, joined into one event; the empty
\* one is a read that found no byte (the key typed was flushed by the
\* tty.setraw of RawTerminal.enable before it was read).
LegacyKeys == {<<"a">>, <<" ">>, <<"ETX">>, <<"DEL">>, <<>>,
               <<"a", "a">>, <<"a", " ">>, <<" ", "a">>, <<"ETX", "a">>}

\* what a read gives: nothing once the terminal has hung up
LegacyKeysRead == IF hung_up THEN {<<>>} ELSE LegacyKeys

\* GameState.started
LegacyStarted(g, d) ==
    [g EXCEPT !.start_time = ReadClock(g, d),
              !.now = ReadClock(g, d),
              !.later = FALSE,
              !.calls = Append(@, "started")]

\* GameState.finish
LegacyFinish(g, d) ==
    [g EXCEPT !.end_time = ReadClock(g, d),
              !.now = ReadClock(g, d),
              !.later = FALSE,
              !.calls = Append(@, "finish")]

\* GameState.tick
LegacyTick(g, d) ==
    LET g1 == [g EXCEPT !.time_left = @ - 1]
    IN IF g1.time_left = 0 THEN LegacyFinish(g1, d) ELSE g1

\* GameState.word_finished
LegacyWordFinished(g, d) ==
    LET i == g.current_word_index + 1
        g1 == [g EXCEPT !.keys_pressed = @ + g.current_word_keys_pressed + 1,
                        !.current_word_keys_pressed = 0,
                        !.status[i] = IF words[i] = g.word_input
                                      THEN TYPED_WELL ELSE TYPED_WRONG,
                        !.word_input = <<>>,
                        !.current_word_index = @ + 1,
                        !.calls = Append(@, "word_finished")]
    IN IF g1.current_word_index = Len(words)
       THEN LegacyFinish(g1, d)
       ELSE [g1 EXCEPT !.status[g1.current_word_index + 1] = TYPING_WELL]

\* Game.run lines 223-225: the first key starts the tick task
LegacyStartTimer(g, d) ==
    IF g.timer_future = NoTask
    THEN [LegacyStarted(g, d) EXCEPT !.timer_future = "created",
                                     !.calls = Append(@, "ensure_future")]
    ELSE g

\* Game.run lines 227-234: the routing of a key to its action
LegacyRouteKey(g, key, d) ==
    CASE key = <<"ETX">> -> [LegacyFinish(g, d) EXCEPT !.aborted = TRUE]
      [] key = <<"DEL">> -> BackspacePressed(g)
      [] key \notin {<<"ETX">>, <<"DEL">>} /\ MatchesSpace(key) ->
             LegacyWordFinished(g, d)
      [] OTHER -> KeyPressed(g, key)

\* Game.run lines 219-234: what the main loop does with what it got
LegacyHandleKey(g, key, d1, d2) ==
    IF key = NoneKey
    THEN LegacyFinish([g EXCEPT !.calls = <<>>], d1)
    ELSE LegacyRouteKey(LegacyStartTimer([g EXCEPT !.calls = <<>>], d1), key, d2)

\* GameState.__init__ (which reads the clock) and the start of Game.run
LegacyInit ==
    /\ DlIdle
    /\ words \in WordSamples
    /\ status = [i \in 1..NumWords |-> IF i = 1 THEN TYPING_WELL ELSE UNTYPED]
    /\ current_word_index = 0
    /\ word_input = <<>>
    /\ max_time \in 0..MaxTime
    /\ time_left = max_time
    /\ start_time = 0
    /\ end_time = None
    /\ keys_pressed = 0
    /\ current_word_keys_pressed = 0
    /\ timer_future = NoTask
    /\ must_cancel = FALSE
    /\ rigorous_spaces = TRUE
    /\ main_pc = "loop"
    /\ input_queue = <<>>
    /\ pending_puts = <<>>
    /\ now = 0
    /\ calls = <<>>
    /\ aborted = FALSE
    /\ keys_typed = 0 /\ script_pos = 0
    /\ hung_up = FALSE /\ loop_stopped = FALSE

\* The pty has gone: from now on os.read returns nothing and every termios
\* call of RawTerminal.enable and RawTerminal.disable raises termios.error.
LegacyHangUp ==
    /\ ~hung_up
    /\ ~loop_stopped
    /\ hung_up' = TRUE
    /\ UNCHANGED <<game_vars, main_pc, input_queue, pending_puts, now, calls,
                   aborted, keys_typed, script_pos, loop_stopped, dl_vars>>

\* Game.run lines 213-216: the loop test passes and the terminal is restored
\* for the render; on a terminal that has hung up disable() raises and ends
\* Game.run
LegacyLoopHeadRaises ==
    /\ main_pc = "loop"
    /\ end_time = None
    /\ hung_up
    /\ main_pc' = "termios_error"
    /\ UNCHANGED <<game_vars, input_queue, pending_puts, now, calls, aborted,
                   keys_typed, script_pos, term_vars, dl_vars>>

\* Game.run lines 213-217: the queue is empty, the loop waits in get()
LegacyMainWait ==
    /\ main_pc = "loop"
    /\ end_time = None
    /\ ~hung_up
    /\ input_queue = <<>>
    /\ main_pc' = "get"
    /\ UNCHANGED <<game_vars, input_queue, pending_puts, now, calls, aborted,
                   keys_typed, script_pos, term_vars, dl_vars>>

\* Game.run lines 217-234: get() returns a key, or the None, and it is handled
LegacyMainHandle ==
    /\ main_pc \in {"loop", "get"}
    /\ main_pc = "loop" => (end_time = None /\ ~hung_up)
    /\ input_queue # <<>>
    /\ \E d1 \in Delays, d2 \in Delays :
          Becomes(LegacyHandleKey(G, Head(input_queue), d1, d2))
    /\ input_queue' = Tail(input_queue)
    /\ main_pc' = IF Head(input_queue) = NoneKey THEN "await_timer" ELSE "loop"
    /\ UNCHANGED <<pending_puts, keys_typed, script_pos, term_vars, Settings,
                   dl_vars>>

\* Game.run lines 213, 236: the loop test fails, the tick task is awaited
LegacyMainExit ==
    /\ main_pc = "loop"
    /\ end_time # None
    /\ main_pc' = "await_timer"
    /\ UNCHANGED <<game_vars, input_queue, pending_puts, now, calls, aborted,
                   keys_typed, script_pos, term_vars, dl_vars>>

\* render_stats line 100: cps is correct_characters divided by end_time -
\* start_time with no test; the division raises ZeroDivisionError when the
\* two are equal.  The accuracy is guarded (lines 102-105).
LegacyStatsRaises == end_time - start_time = 0

\* where Game.run is after lines 236-238: the await re-raises the exception
\* the tick task ended by, disable() raises on a terminal that has hung up,
\* and render_stats raises on its division
LegacyAfterStats ==
    IF timer_future = "raised" \/ hung_up THEN "termios_error"
    ELSE IF LegacyStatsRaises THEN "zero_division" ELSE "stats"

\* Game.run lines 236-238: the tick task is over, the stats are rendered
LegacyMainStats ==
    /\ main_pc = "await_timer"
    /\ timer_future \in {"done", "raised"}
    /\ main_pc' = LegacyAfterStats
    /\ UNCHANGED <<game_vars, input_queue, pending_puts, now, calls, aborted,
                   keys_typed, script_pos, term_vars, dl_vars>>

\* as LoopRunning: Game.run is suspended in an await, or has ended and
\* loop.run_until_complete has not yet stopped the loop
LegacyLoopRunning == main_pc # "loop" /\ ~loop_stopped

\* timer() lines 202-203 and 209: the loop test; the first half-second sleep,
\* or the None put on the queue
LegacyTimerFirstStep ==
    /\ LegacyLoopRunning
    /\ timer_future = "created"
    /\ IF end_time # None
       THEN /\ timer_future' = "done"
            /\ input_queue' = Append(input_queue, NoneKey)
       ELSE /\ timer_future' = "sleep1"
            /\ UNCHANGED input_queue
    /\ UNCHANGED <<words, status, current_word_index, word_input, time_left,
                   start_time, end_time, keys_pressed, current_word_keys_pressed,
                   must_cancel, rigorous_spaces, max_time, main_pc, pending_puts,
                   now, calls, aborted, keys_typed, script_pos, term_vars,
                   dl_vars>>

\* timer() lines 203-204: the first sleep is over, the second begins
LegacyTimerHalfway ==
    /\ LegacyLoopRunning
    /\ timer_future = "sleep1"
    /\ timer_future' = "sleep2"
    /\ UNCHANGED <<words, status, current_word_index, word_input, time_left,
                   start_time, end_time, keys_pressed, current_word_keys_pressed,
                   must_cancel, rigorous_spaces, max_time, loop_vars, dl_vars>>

\* timer() lines 205-209 and 202: the tick; then disable() for the render,
\* which raises on a terminal that has hung up and ends the task; otherwise
\* the loop test, and the next sleep or the end of the task
LegacyTimerAfterSleep(g, d, hung) ==
    LET g1 == LegacyTick(g, d)
    IN [g1 EXCEPT !.timer_future = IF hung THEN "raised"
                                   ELSE IF IsFinished(g1) THEN "done"
                                   ELSE "sleep1"]

\* the tick task's step after its second sleep; a task that ends by its loop
\* test puts the None on the queue (line 209)
LegacyTimerStep ==
    /\ LegacyLoopRunning
    /\ timer_future = "sleep2"
    /\ time_left > -MaxOverrun
    /\ \E d \in Delays :
          LET g1 == LegacyTimerAfterSleep(G, d, hung_up)
          IN /\ Becomes([g1 EXCEPT !.calls = calls])
             /\ input_queue' = IF g1.timer_future = "done"
                               THEN Append(input_queue, NoneKey)
                               ELSE input_queue
    /\ UNCHANGED <<main_pc, pending_puts, keys_typed, script_pos, term_vars,
                   Settings, dl_vars>>

\* RawTerminal._got_input: the bytes read become one key event, and a task
\* that puts it on the queue is scheduled
LegacyGotInput ==
    /\ LegacyLoopRunning
    /\ keys_typed < MaxKeys
    /\ \E key \in LegacyKeysRead : pending_puts' = Append(pending_puts, key)
    /\ keys_typed' = keys_typed + 1
    /\ UNCHANGED <<script_pos, term_vars>>
    /\ UNCHANGED <<game_vars, main_pc, input_queue, now, calls, aborted, dl_vars>>

\* the input_queue.put(keys_str) task runs
LegacyPutStep ==
    /\ LegacyLoopRunning
    /\ pending_puts # <<>>
    /\ input_queue' = Append(input_queue, Head(pending_puts))
    /\ pending_puts' = Tail(pending_puts)
    /\ UNCHANGED <<game_vars, main_pc, now, calls, aborted, keys_typed,
                   script_pos, term_vars, dl_vars>>

LegacyNext ==
    \/ LegacyMainWait \/ LegacyMainHandle \/ LegacyMainExit \/ LegacyMainStats
    \/ LegacyLoopHeadRaises
    \/ LegacyTimerFirstStep \/ LegacyTimerHalfway \/ LegacyTimerStep
    \/ LegacyGotInput \/ LegacyPutStep
    \/ LegacyHangUp \/ LoopStops

SpecLegacy == LegacyInit /\ [][LegacyNext]_vars

(***************************************************************************)
(* Claims checked under SpecLegacy.                                        *)
(***************************************************************************)
\* C27: in the older variant, once the abort key has finished the game no
\* tick is applied: time_left is not lowered again and the end timestamp is
\* not written again.
C27_LegacyAbortStopsTicks ==
    [][aborted => (time_left' = time_left /\ end_time' = end_time)]_vars

\* The two halves of C27, apart: the tick after the abort, and the end
\* timestamp written again by a tick that reaches 0.
LegacyNoTickAfterAbort == [][aborted => time_left' = time_left]_vars

LegacyEndTimeKeptAfterAbort == [][aborted => end_time' = end_time]_vars

\* C5: a second finish() leaves the end timestamp as the first call set it.
C5_FinishIdempotent == [][end_time # None => end_time' = end_time]_vars

====
